---- MODULE Spec2Model ----
(***************************************************************************)
(* A model of papers.py, the entry-decision program of the Kanadia         *)
(* immigration office: decide() runs six rule functions on every entry     *)
(* record and appends one label per record by a fixed priority.            *)
(*                                                                         *)
(* Python strings are sequences of one-character strings, so that          *)
(* str.upper(), str.lower(), the regular expressions and strptime are      *)
(* computed character by character. A JSON object is a function from its   *)
(* keys; a key the object does not hold is absent from the DOMAIN, and     *)
(* reading it is Python's KeyError.                                        *)
(***************************************************************************)
EXTENDS Integers, Sequences, FiniteSets, TLC

(***************************************************************************)
(* Characters and the str methods                                          *)
(***************************************************************************)
LowerLetters ==
    << "a", "b", "c", "d", "e", "f", "g", "h", "i", "j", "k", "l", "m",
       "n", "o", "p", "q", "r", "s", "t", "u", "v", "w", "x", "y", "z" >>

UpperLetters ==
    << "A", "B", "C", "D", "E", "F", "G", "H", "I", "J", "K", "L", "M",
       "N", "O", "P", "Q", "R", "S", "T", "U", "V", "W", "X", "Y", "Z" >>

DigitChars == << "0", "1", "2", "3", "4", "5", "6", "7", "8", "9" >>

Range(s) == { s[i] : i \in DOMAIN s }

\* \d of the regular expressions
IsDigit(c) == c \in Range(DigitChars)

\* \w of the regular expressions: a letter, a digit or the underscore
IsWordChar(c) ==
    c \in Range(LowerLetters) \cup Range(UpperLetters) \cup Range(DigitChars) \cup {"_"}

DigitVal(c) == (CHOOSE i \in 1..10 : DigitChars[i] = c) - 1

UpperChar(c) ==
    IF c \in Range(LowerLetters)
    THEN UpperLetters[CHOOSE i \in 1..26 : LowerLetters[i] = c]
    ELSE c

LowerChar(c) ==
    IF c \in Range(UpperLetters)
    THEN LowerLetters[CHOOSE i \in 1..26 : UpperLetters[i] = c]
    ELSE c

\* str.upper() and str.lower()
upper(s) == [i \in 1..Len(s) |-> UpperChar(s[i])]

lower(s) == [i \in 1..Len(s) |-> LowerChar(s[i])]

(***************************************************************************)
(* The format validators                                                   *)
(***************************************************************************)
\* re.match of '^\w{5}(-\w{5}){n-1}$': n groups of five word characters
\* joined by single hyphens. '$' also matches just before one trailing
\* newline.
MatchGroups(s, n) ==
    LET t == IF Len(s) > 0 /\ s[Len(s)] = "\n" THEN SubSeq(s, 1, Len(s) - 1) ELSE s
    IN  /\ Len(t) = 6 * n - 1
        /\ \A i \in 1..Len(t) : IF i % 6 = 0 THEN t[i] = "-" ELSE IsWordChar(t[i])

valid_passport_format(passport_number) == MatchGroups(passport_number, 5)

valid_visa_code_format(visa_code) == MatchGroups(visa_code, 2)

\* calendar
IsLeap(y) == y % 4 = 0 /\ (y % 100 # 0 \/ y % 400 = 0)

DaysInMonth(y, m) ==
    IF m = 2 THEN (IF IsLeap(y) THEN 29 ELSE 28)
    ELSE IF m \in {4, 6, 9, 11} THEN 30 ELSE 31

\* datetime.date(y, m, d) raises ValueError unless this holds
IsDate(y, m, d) ==
    /\ y >= 1 /\ y <= 9999
    /\ m >= 1 /\ m <= 12
    /\ d >= 1 /\ d <= DaysInMonth(y, m)

NoDate == [ok |-> FALSE, y |-> 0, m |-> 0, d |-> 0]

\* datetime.datetime.strptime(date_string, '%Y-%m-%d'): the date parsed,
\* or ok = FALSE for its ValueError. %Y is \d\d\d\d, %m is
\* 1[0-2]|0[1-9]|[1-9], %d is 3[01]|[12]\d|0[1-9]|[1-9]| [1-9]; the whole
\* string must be consumed and the numbers must make a calendar date.
strptime(s) ==
    LET n == Len(s)
        yearOk == n >= 5 /\ (\A i \in 1..4 : IsDigit(s[i])) /\ s[5] = "-"
        year == 1000 * DigitVal(s[1]) + 100 * DigitVal(s[2])
                    + 10 * DigitVal(s[3]) + DigitVal(s[4])
        m2 == /\ n >= 7
              /\ \/ s[6] = "1" /\ s[7] \in {"0", "1", "2"}
                 \/ s[6] = "0" /\ IsDigit(s[7]) /\ s[7] # "0"
        m1 == ~m2 /\ n >= 6 /\ IsDigit(s[6]) /\ s[6] # "0"
        month == IF m2 THEN 10 * DigitVal(s[6]) + DigitVal(s[7]) ELSE DigitVal(s[6])
        p == IF m2 THEN 8 ELSE 7        \* where the second hyphen must be
        sepOk == (m2 \/ m1) /\ n >= p /\ s[p] = "-"
        q == p + 1                      \* where the day starts
        d2 == /\ n >= q + 1
              /\ \/ s[q] = "3" /\ s[q + 1] \in {"0", "1"}
                 \/ s[q] \in {"1", "2"} /\ IsDigit(s[q + 1])
                 \/ s[q] = "0" /\ IsDigit(s[q + 1]) /\ s[q + 1] # "0"
        d1 == ~d2 /\ n >= q /\ IsDigit(s[q]) /\ s[q] # "0"
        dsp == ~d2 /\ ~d1 /\ n >= q + 1 /\ s[q] = " "
                   /\ IsDigit(s[q + 1]) /\ s[q + 1] # "0"
        day == IF d2 THEN 10 * DigitVal(s[q]) + DigitVal(s[q + 1])
               ELSE IF d1 THEN DigitVal(s[q]) ELSE DigitVal(s[q + 1])
        endPos == IF d1 THEN q ELSE q + 1
    IN  IF yearOk /\ sepOk /\ (d2 \/ d1 \/ dsp) /\ endPos = n /\ IsDate(year, month, day)
        THEN [ok |-> TRUE, y |-> year, m |-> month, d |-> day]
        ELSE NoDate

valid_date_format(date_string) == strptime(date_string).ok

\* date.toordinal(): the days from 0001-01-01, which is day 1
DaysBeforeYear(y) == (y - 1) * 365 + (y - 1) \div 4 - (y - 1) \div 100 + (y - 1) \div 400

RECURSIVE DaysBeforeMonth(_, _)
DaysBeforeMonth(y, m) ==
    IF m <= 1 THEN 0 ELSE DaysBeforeMonth(y, m - 1) + DaysInMonth(y, m - 1)

toordinal(y, m, d) == DaysBeforeYear(y) + DaysBeforeMonth(y, m) + d

\* check_visa_expiry passing a visa of exactly the cutoff day
check_visa_expiry_inclusive(visa_date, today_date) ==
    LET two_years_ago_from_today ==
            IF IsDate(today_date.y - 2, today_date.m, today_date.d)
            THEN toordinal(today_date.y - 2, today_date.m, today_date.d)
            ELSE toordinal(today_date.y, today_date.m, today_date.d)
                   + (toordinal(today_date.y - 2, 1, 1) - toordinal(today_date.y, 1, 1))
        v == strptime(visa_date)
        time_difference_in_days == toordinal(v.y, v.m, v.d) - two_years_ago_from_today
    IN  IF ~v.ok THEN "ValueError"
        ELSE IF time_difference_in_days >= 0 THEN "True" ELSE "False"

\* check_visa_expiry(visa_date), with the date that datetime.date.today()
\* hands it: "True" iff the visa date is more than 0 days after today two
\* years back. today.replace(year - 2) raises ValueError when that day does
\* not exist (Feb 29), and the cutoff is then today shifted by the days
\* between the two New Year's days. strptime of an unparseable visa date
\* raises ValueError.
check_visa_expiry(visa_date, today_date) ==
    LET two_years_ago_from_today ==
            IF IsDate(today_date.y - 2, today_date.m, today_date.d)
            THEN toordinal(today_date.y - 2, today_date.m, today_date.d)
            ELSE toordinal(today_date.y, today_date.m, today_date.d)
                   + (toordinal(today_date.y - 2, 1, 1) - toordinal(today_date.y, 1, 1))
        v == strptime(visa_date)
        time_difference_in_days == toordinal(v.y, v.m, v.d) - two_years_ago_from_today
    IN  IF ~v.ok THEN "ValueError"
        ELSE IF time_difference_in_days > 0 THEN "True" ELSE "False"

(***************************************************************************)
(* The reference lookups                                                   *)
(***************************************************************************)
KAN == << "K", "A", "N" >>

returning == << "r", "e", "t", "u", "r", "n", "i", "n", "g" >>

transit == << "t", "r", "a", "n", "s", "i", "t" >>

One == << "1" >>

\* has_medical_advisory taking a missing country for one without advisory
has_medical_advisory_default(country_code, country_info_list) ==
    IF country_code \notin DOMAIN country_info_list THEN "False"
    ELSE IF Len(country_info_list[country_code].medical_advisory) > 0 THEN "True"
    ELSE "False"

\* "True", "False", or "KeyError" for a code the table does not hold
has_medical_advisory(country_code, country_info_list) ==
    IF country_code \notin DOMAIN country_info_list THEN "KeyError"
    ELSE IF Len(country_info_list[country_code].medical_advisory) > 0 THEN "True"
    ELSE "False"

\* is_visa_required without the early return for KAN
is_visa_required_by_table(country_code, required_visa_type, country_list_file) ==
    IF country_code \notin DOMAIN country_list_file THEN "KeyError"
    ELSE IF lower(required_visa_type) = transit
         THEN (IF country_list_file[country_code].transit_visa_required = One
               THEN "True" ELSE "False")
         ELSE (IF country_list_file[country_code].visitor_visa_required = One
               THEN "True" ELSE "False")

is_visa_required(country_code, required_visa_type, country_list_file) ==
    IF country_code = KAN THEN "False"
    ELSE IF country_code \notin DOMAIN country_list_file THEN "KeyError"
    ELSE IF lower(required_visa_type) = transit
         THEN (IF country_list_file[country_code].transit_visa_required = One
               THEN "True" ELSE "False")
         ELSE (IF country_list_file[country_code].visitor_visa_required = One
               THEN "True" ELSE "False")

\* the loop of is_in_watchlist: the flag after the records from i on
RECURSIVE WatchlistScan(_, _, _, _, _, _)
WatchlistScan(first_name, last_name, passport_number, watchlist, i, in_watchlist) ==
    IF i > Len(watchlist) THEN in_watchlist
    ELSE LET watchlist_record == watchlist[i]
             hit == \/ /\ upper(first_name) = upper(watchlist_record.first_name)
                       /\ upper(last_name) = upper(watchlist_record.last_name)
                    \/ passport_number = watchlist_record.passport
         IN  WatchlistScan(first_name, last_name, passport_number, watchlist, i + 1,
                           IF hit THEN TRUE ELSE in_watchlist)

\* is_in_watchlist matching on either name instead of both
is_in_watchlist_either_name(first_name, last_name, passport_number, watchlist) ==
    \E i \in 1..Len(watchlist) :
        \/ upper(first_name) = upper(watchlist[i].first_name)
        \/ upper(last_name) = upper(watchlist[i].last_name)
        \/ passport_number = watchlist[i].passport

is_in_watchlist(first_name, last_name, passport_number, watchlist) ==
    WatchlistScan(first_name, last_name, passport_number, watchlist, 1, FALSE)

(***************************************************************************)
(* Reading an entry record                                                 *)
(***************************************************************************)
\* entry_record[k] raises KeyError
Lacks(entry_record, k) == k \notin DOMAIN entry_record

\* entry_record[k][f] raises KeyError
Lacks2(entry_record, k, f) ==
    Lacks(entry_record, k) \/ f \notin DOMAIN entry_record[k]

\* valid_basic_info_availability(entry_record[...]) on the field at `path`
\* (one or two keys): "KeyError" when a key is absent, "ValueError" for the
\* empty string, "ok" when the value is returned
valid_basic_info_availability(entry_record, path) ==
    IF Len(path) = 1
    THEN (IF Lacks(entry_record, path[1]) THEN "KeyError"
          ELSE IF entry_record[path[1]] = << >> THEN "ValueError" ELSE "ok")
    ELSE (IF Lacks2(entry_record, path[1], path[2]) THEN "KeyError"
          ELSE IF entry_record[path[1]][path[2]] = << >> THEN "ValueError" ELSE "ok")

BasicPaths ==
    << <<"first_name">>, <<"last_name">>, <<"birth_date">>, <<"passport">>,
       <<"home", "city">>, <<"home", "region">>, <<"home", "country">>,
       <<"from", "city">>, <<"from", "region">>, <<"from", "country">>,
       <<"entry_reason">> >>

ViaPaths == << <<"via", "city">>, <<"via", "region">>, <<"via", "country">> >>

VisaPaths == << <<"visa", "date">>, <<"visa", "code">> >>

\* the statements of the try block, in order
CheckedPaths(entry_record) ==
    BasicPaths
      \o (IF "via" \in DOMAIN entry_record THEN ViaPaths ELSE << >>)
      \o (IF "visa" \in DOMAIN entry_record THEN VisaPaths ELSE << >>)

\* how the try block ends: "ok", or the first exception raised
RECURSIVE TryBlock(_, _, _)
TryBlock(entry_record, paths, i) ==
    IF i > Len(paths) THEN "ok"
    ELSE LET got == valid_basic_info_availability(entry_record, paths[i])
         IN  IF got = "ok" THEN TryBlock(entry_record, paths, i + 1) ELSE got

(***************************************************************************)
(* The six rule functions. Each yields its label, or "KeyError" /          *)
(* "ValueError" for the exception it lets through.                         *)
(***************************************************************************)
basic_information_completeness_check(entry_record) ==
    LET end == TryBlock(entry_record, CheckedPaths(entry_record), 1)
    IN  IF end = "ok" THEN "Accept"
        ELSE IF end = "ValueError" THEN "Reject"      \* except ValueError
        ELSE end                                      \* KeyError is not caught

information_validity_decision_function(entry_record) ==
    IF Lacks(entry_record, "passport") THEN "KeyError"
    ELSE IF ~valid_passport_format(entry_record["passport"]) THEN "Reject"
    ELSE IF Lacks(entry_record, "birth_date") THEN "KeyError"
    ELSE IF ~valid_date_format(entry_record["birth_date"]) THEN "Reject"
    ELSE IF "visa" \in DOMAIN entry_record
         THEN (IF Lacks2(entry_record, "visa", "date") THEN "KeyError"
               ELSE IF ~valid_date_format(entry_record["visa"]["date"]) THEN "Reject"
               ELSE IF Lacks2(entry_record, "visa", "code") THEN "KeyError"
               ELSE IF ~valid_visa_code_format(entry_record["visa"]["code"]) THEN "Reject"
               ELSE "Accept")
    ELSE "Accept"

watchlist_decision_function(entry_record, watch_list_file) ==
    IF \/ Lacks(entry_record, "first_name")
       \/ Lacks(entry_record, "last_name")
       \/ Lacks(entry_record, "passport")
    THEN "KeyError"
    ELSE IF is_in_watchlist(entry_record["first_name"], entry_record["last_name"],
                            entry_record["passport"], watch_list_file)
         THEN "Secondary"
         ELSE "Accept"

\* quarantine_decision_function looking at from.country alone
quarantine_decision_function_from_only(entry_record, country_list_file) ==
    IF Lacks2(entry_record, "from", "country") THEN "KeyError"
    ELSE
    LET from_country_temp == entry_record["from"]["country"]
        check_medical_advisory == has_medical_advisory(from_country_temp, country_list_file)
    IN  IF from_country_temp = << >> THEN "Reject"
        ELSE IF check_medical_advisory = "KeyError" THEN "KeyError"
        ELSE IF check_medical_advisory = "True" THEN "Quarantine"
        ELSE "Accept"

quarantine_decision_function(entry_record, country_list_file) ==
    IF Lacks2(entry_record, "from", "country") THEN "KeyError"
    ELSE
    LET from_country_temp == entry_record["from"]["country"]
        hasVia == "via" \in DOMAIN entry_record
        fromAdvisory == has_medical_advisory(from_country_temp, country_list_file)
        viaAdvisory == has_medical_advisory(entry_record["via"]["country"], country_list_file)
        \* a or b: b is evaluated only when a is false
        check_medical_advisory ==
            IF hasVia
            THEN (IF viaAdvisory = "False" THEN fromAdvisory ELSE viaAdvisory)
            ELSE fromAdvisory
    IN  IF from_country_temp = << >> THEN "Reject"
        ELSE IF hasVia /\ Lacks2(entry_record, "via", "country") THEN "KeyError"
        ELSE IF check_medical_advisory = "KeyError" THEN "KeyError"
        ELSE IF check_medical_advisory = "True" THEN "Quarantine"
        ELSE "Accept"

\* visa_decision_function without the expiry check
visa_decision_function_no_expiry(entry_record, country_list_file, today_date) ==
    IF Lacks2(entry_record, "home", "country") \/ Lacks(entry_record, "entry_reason")
    THEN "KeyError"
    ELSE
    LET home_country_temp == entry_record["home"]["country"]
        entry_reason_temp == entry_record["entry_reason"]
        hasVisa == "visa" \in DOMAIN entry_record
        required == is_visa_required(home_country_temp, entry_reason_temp, country_list_file)
    IN  IF home_country_temp = << >> THEN "Reject"
        ELSE IF hasVisa /\ Lacks2(entry_record, "visa", "date") THEN "KeyError"
        ELSE IF hasVisa /\ entry_record["visa"]["date"] = << >> THEN "Reject"
        ELSE IF hasVisa /\ Lacks2(entry_record, "visa", "code") THEN "KeyError"
        ELSE IF hasVisa /\ entry_record["visa"]["code"] = << >> THEN "Reject"
        ELSE IF required = "KeyError" THEN "KeyError"
        ELSE IF required = "False" THEN "Accept"
        ELSE IF ~hasVisa THEN "Reject"
        ELSE IF ~valid_date_format(entry_record["visa"]["date"]) THEN "Reject"
        ELSE IF ~valid_visa_code_format(entry_record["visa"]["code"]) THEN "Reject"
        ELSE "Accept"

visa_decision_function(entry_record, country_list_file, today_date) ==
    IF Lacks2(entry_record, "home", "country") \/ Lacks(entry_record, "entry_reason")
    THEN "KeyError"
    ELSE
    LET home_country_temp == entry_record["home"]["country"]
        entry_reason_temp == entry_record["entry_reason"]
        hasVisa == "visa" \in DOMAIN entry_record
        required == is_visa_required(home_country_temp, entry_reason_temp, country_list_file)
        expiry == check_visa_expiry(entry_record["visa"]["date"], today_date)
    IN  IF home_country_temp = << >> THEN "Reject"
        ELSE IF hasVisa /\ Lacks2(entry_record, "visa", "date") THEN "KeyError"
        ELSE IF hasVisa /\ entry_record["visa"]["date"] = << >> THEN "Reject"
        ELSE IF hasVisa /\ Lacks2(entry_record, "visa", "code") THEN "KeyError"
        ELSE IF hasVisa /\ entry_record["visa"]["code"] = << >> THEN "Reject"
        ELSE IF required = "KeyError" THEN "KeyError"
        ELSE IF required = "False" THEN "Accept"
        ELSE IF ~hasVisa THEN "Reject"
        ELSE IF ~valid_date_format(entry_record["visa"]["date"]) THEN "Reject"
        ELSE IF ~valid_visa_code_format(entry_record["visa"]["code"]) THEN "Reject"
        ELSE IF expiry = "ValueError" THEN "ValueError"
        ELSE IF expiry = "True" THEN "Accept"
        ELSE "Reject"

return_entry_decision_function(entry_record) ==
    IF Lacks(entry_record, "entry_reason") THEN "KeyError"
    ELSE IF lower(entry_record["entry_reason"]) # returning THEN "No Decision"
    ELSE IF Lacks2(entry_record, "home", "country") THEN "KeyError"
    ELSE IF upper(entry_record["home"]["country"]) = KAN THEN "Accept"
    ELSE "No Decision"

\* FinalDecision with Reject tested before Quarantine
FinalDecisionRejectFirst(entry_decision_for_current_record) ==
    IF "Reject" \in Range(entry_decision_for_current_record) THEN << "Reject" >>
    ELSE IF "Quarantine" \in Range(entry_decision_for_current_record) THEN << "Quarantine" >>
    ELSE IF "Secondary" \in Range(entry_decision_for_current_record) THEN << "Secondary" >>
    ELSE IF "Accept" \in Range(entry_decision_for_current_record) THEN << "Accept" >>
    ELSE << >>

\* lines 45-52 of decide: the label the six outcomes give by the priority
\* Quarantine, Reject, Secondary, Accept; << >> when none of the four is
\* among them and nothing is appended
FinalDecision(entry_decision_for_current_record) ==
    IF "Quarantine" \in Range(entry_decision_for_current_record) THEN << "Quarantine" >>
    ELSE IF "Reject" \in Range(entry_decision_for_current_record) THEN << "Reject" >>
    ELSE IF "Secondary" \in Range(entry_decision_for_current_record) THEN << "Secondary" >>
    ELSE IF "Accept" \in Range(entry_decision_for_current_record) THEN << "Accept" >>
    ELSE << >>

(***************************************************************************)
(* The inputs: what parse_json_to_python_list hands decide                 *)
(***************************************************************************)
Digit(n) == DigitChars[n + 1]

\* the text YYYY-MM-DD of three numbers, a calendar date or not
DateStr(y, m, d) ==
    << Digit(y \div 1000), Digit((y \div 100) % 10), Digit((y \div 10) % 10), Digit(y % 10),
       "-", Digit(m \div 10), Digit(m % 10), "-", Digit(d \div 10), Digit(d % 10) >>

Group(c) == << c, c, c, c, c >>

\* five groups of the character c, and two
PassportOf(c) ==
    Group(c) \o <<"-">> \o Group(c) \o <<"-">> \o Group(c) \o <<"-">> \o Group(c)
        \o <<"-">> \o Group(c)

VisaCodeOf(c) == Group(c) \o <<"-">> \o Group(c)

Ann == << "A", "n", "n" >>
Bob == << "B", "o", "b" >>
Zoe == << "Z", "o", "e" >>
Lee == << "L", "e", "e" >>
Kim == << "K", "i", "m" >>
Poe == << "P", "o", "e" >>
Town == << "T", "o", "w", "n" >>
Shire == << "S", "h" >>
QUA == << "Q", "U", "A" >>     \* under a medical advisory, no visa required
VIS == << "V", "I", "S" >>     \* visitor visa required
TRA == << "T", "R", "A" >>     \* transit visa required
ZZZ == << "Z", "Z", "Z" >>     \* in no table
Zero == << "0" >>

\* countries.json: a policy per country code
Countries ==
    [c \in {KAN, QUA, VIS, TRA} |->
        [ medical_advisory |-> IF c = QUA THEN << "F", "L", "U" >> ELSE << >>,
          visitor_visa_required |-> IF c = VIS THEN One ELSE Zero,
          transit_visa_required |-> IF c = TRA THEN One ELSE Zero ]]

\* the same table without an entry for KAN itself
CountriesNoKAN == [c \in {QUA, VIS, TRA} |-> Countries[c]]

\* watchlist.json
Person(f, l, p) == [first_name |-> f, last_name |-> l, passport |-> p]

Watchlists ==
    << << Person(Ann, Lee, PassportOf("9")), Person(Zoe, Poe, PassportOf("A")) >>,
       << >>,
       << Person(Zoe, Poe, PassportOf("A")), Person(upper(Ann), upper(Lee), PassportOf("9")),
          Person(Kim, Kim, PassportOf("8")) >> >>

\* the optional parts of a record: the key and its object, or neither
Via(country) == [has |-> TRUE, country |-> country]

NoVia == [has |-> FALSE, country |-> << >>]

Visa(date, code) == [has |-> TRUE, date |-> date, code |-> code]

NoVisa == [has |-> FALSE, date |-> << >>, code |-> << >>]

\* The entry records differ from a base record, a returning citizen with a
\* visa and nothing to object to, in up to MaxDeviations of these aspects.
\* Option 1 of each aspect is the base; option 1 of blank blanks no field,
\* of drop drops no key.
MaxDeviations == 2

Options ==
    [ id |->                    \* first name, last name, passport
        << <<Bob, Kim, PassportOf("7")>>,
           <<Ann, Lee, PassportOf("A")>>,                 \* both ways on the list
           <<lower(Ann), upper(Lee), PassportOf("7")>>,   \* by name, in another case
           <<Bob, Kim, PassportOf("A")>>,                 \* by passport only
           <<Bob, Kim, PassportOf("a")>>,                 \* passport in another case
           <<Ann, Poe, PassportOf("7")>>,                 \* names of two list entries
           <<Ann, Lee, SubSeq(PassportOf("7"), 1, 28)>>,  \* on the list, bad passport
           << << >>, Kim, PassportOf("7")>>,
           <<Bob, Kim, << >> >>,
           <<Bob, Kim, PassportOf("A") \o << "\n" >> >> >>,
      frm  |-> << VIS, QUA, << >>, ZZZ, KAN >>,
      via  |-> << NoVia, Via(QUA), Via(TRA), Via(<< >>), Via(ZZZ) >>,
      home |-> << KAN, VIS, TRA, << >>, ZZZ, lower(KAN) >>,
      reason |-> << returning, upper(returning), << "v", "i", "s", "i", "t" >>,
                    upper(transit), transit, << >> >>,
      visa |->
        << Visa(DateStr(2023, 6, 16), VisaCodeOf("V")),
           NoVisa,
           Visa(DateStr(2023, 6, 15), VisaCodeOf("V")),
           Visa(DateStr(2023, 6, 16), VisaCodeOf("#")),
           Visa(DateStr(2023, 6, 31), VisaCodeOf("V")),
           Visa(<< >>, VisaCodeOf("V")),
           Visa(DateStr(2023, 6, 16), << >>) >>,
      birth |-> << DateStr(1990, 1, 31), DateStr(1990, 2, 30), << >>,
                   << "1", "9", "9", "0", "-", "1", "-", "5" >> >>,
      blank |-> << << >>, <<"home", "city">>, <<"from", "region">>, <<"via", "city">> >>,
      drop |-> << "", "first_name", "passport", "home", "from", "entry_reason",
                  "birth_date" >>,
      watch |-> Watchlists,
      table |-> << Countries, CountriesNoKAN >>,
      clock |-> << [y |-> 2025, m |-> 6, d |-> 15], [y |-> 2024, m |-> 2, d |-> 29] >> ]

Aspects == DOMAIN Options

BaseChoice == [a \in Aspects |-> 1]

Deviations(c) == Cardinality({ a \in Aspects : c[a] # 1 })

\* the choices of S with one more aspect, a, set to each of its options
WithAspect(S, a, k) ==
    S \cup { [c EXCEPT ![a] = o] :
               c \in { x \in S : Deviations(x) < k }, o \in 2..Len(Options[a]) }

RECURSIVE ChoicesOver(_, _)
ChoicesOver(as, k) ==
    IF as = {} THEN { BaseChoice }
    ELSE LET a == CHOOSE x \in as : TRUE
         IN  WithAspect(ChoicesOver(as \ {a}, k), a, k)

\* every choice within k deviations of the base
Choices(k) == ChoicesOver(Aspects, k)

Place(city, country) == [city |-> city, region |-> Shire, country |-> country]

Without(r, k) == [x \in DOMAIN r \ {k} |-> r[x]]

\* r with the field at `path` set to the empty string, when r has it
Blanked(r, path) ==
    IF Len(path) = 0 THEN r
    ELSE IF path[1] \notin DOMAIN r THEN r
    ELSE [r EXCEPT ![path[1]] = [@ EXCEPT ![path[2]] = << >>]]

\* the entry record of a choice
RecordOf(c) ==
    LET id == Options.id[c.id]
        via == Options.via[c.via]
        visa == Options.visa[c.visa]
        full == [ first_name |-> id[1], last_name |-> id[2], passport |-> id[3],
                  birth_date |-> Options.birth[c.birth],
                  home |-> Place(Town, Options.home[c.home]),
                  from |-> Place(Town, Options.frm[c.frm]),
                  via |-> Place(Town, via.country),
                  visa |-> [date |-> visa.date, code |-> visa.code],
                  entry_reason |-> Options.reason[c.reason] ]
        r1 == IF via.has THEN full ELSE Without(full, "via")
        r2 == IF visa.has THEN r1 ELSE Without(r1, "visa")
        r3 == Blanked(r2, Options.blank[c.blank])
    IN  IF c.drop = 1 THEN r3 ELSE Without(r3, Options.drop[c.drop])

\* The batches of decide's loop and of a second call are drawn from a few
\* of these records: accepted, quarantined, on the watchlist, holding a visa
\* about to expire, rejected, and lacking a key.
BatchRecords ==
    { RecordOf(BaseChoice),
      RecordOf([BaseChoice EXCEPT !.frm = 2]),
      RecordOf([BaseChoice EXCEPT !.id = 4]),
      RecordOf([BaseChoice EXCEPT !.home = 2]),
      RecordOf([BaseChoice EXCEPT !.birth = 2]),
      RecordOf([BaseChoice EXCEPT !.drop = 2]) }

MaxEntries == 2

RECURSIVE ListsUpTo(_, _)
ListsUpTo(S, n) ==
    IF n = 0 THEN { << >> }
    ELSE LET shorter == ListsUpTo(S, n - 1)
         IN  shorter \cup { Append(l, r) : l \in { k \in shorter : Len(k) = n - 1 }, r \in S }

\* The days and the visa dates of the expiry sweep: the turns of the months
\* around Feb 29 and of the year, in YearSpan + 1 years from 2023 on, and
\* the same days of the years before.
YearSpan == 1

SweepDays ==
    { <<1, 1>>, <<1, 2>>, <<2, 27>>, <<2, 28>>, <<2, 29>>, <<3, 1>>, <<3, 2>>,
      <<6, 15>>, <<12, 30>>, <<12, 31>> }

SweepTodays ==
    { t \in { [y |-> yy, m |-> md[1], d |-> md[2]] :
                yy \in 2023..(2023 + YearSpan), md \in SweepDays } : IsDate(t.y, t.m, t.d) }

SweepVisaDates ==
    { DateStr(yy, md[1], md[2]) : yy \in 2020..(2022 + YearSpan), md \in SweepDays }
      \cup { << "2", "0", "2", "2", "-", "3", "-", "1" >>,
             << "2", "0", "2", "2", "-", "0", "3", "-", " ", "2" >> }

(***************************************************************************)
(* decide, a statement of its loop at a time                               *)
(***************************************************************************)
VARIABLES
    entry_list,        \* the parsed input file
    watch_list,        \* the parsed watchlist file
    country_list,      \* the parsed countries file
    clock,             \* the date datetime.date.today() returns now
    pc,                \* the statement decide is at
    idx,               \* the position of entry_record in entry_list
    entry_decision_for_current_record,
    entry_decision_list,
    returned,          \* what the calls of decide so far gave their caller
    ticks              \* the midnights passed

vars ==
    << entry_list, watch_list, country_list, clock, pc, idx,
       entry_decision_for_current_record, entry_decision_list, returned, ticks >>

MaxCalls == 2

MaxTicks == 1

Exceptions == { "KeyError", "ValueError" }

\* the for statement: the next record, or the return
LoopHead(i) == IF i <= Len(entry_list) THEN "completeness" ELSE "return"

Locals ==
    /\ idx = 1
    /\ pc = LoopHead(1)
    /\ entry_decision_for_current_record = << >>
    /\ entry_decision_list = << >>
    /\ returned = << >>
    /\ ticks = 0

\* a batch of a few records, the repository's reference files
Init ==
    /\ entry_list \in ListsUpTo(BatchRecords, MaxEntries)
    /\ watch_list = Watchlists[1]
    /\ country_list = Countries
    /\ clock \in Range(Options.clock)
    /\ Locals

\* one record out of all the choices
InitRecord ==
    /\ \E c \in Choices(MaxDeviations) :
          /\ entry_list = << RecordOf(c) >>
          /\ watch_list = Options.watch[c.watch]
          /\ country_list = Options.table[c.table]
          /\ clock = Options.clock[c.clock]
    /\ Locals

\* one visitor who needs a visa, on every day and visa date of the sweep
InitExpiry ==
    /\ \E v \in SweepVisaDates :
          entry_list =
            << [RecordOf([BaseChoice EXCEPT !.home = 2]) EXCEPT !.visa.date = v] >>
    /\ watch_list = Watchlists[1]
    /\ country_list = Countries
    /\ clock \in SweepTodays
    /\ Locals

entry_record == entry_list[idx]

\* A rule function is called and its outcome appended, or its exception
\* ends the call of decide.
Rule(here, next, before, outcome) ==
    /\ pc = here
    /\ IF outcome \in Exceptions
       THEN /\ pc' = "raised"
            /\ entry_decision_for_current_record' = before
            /\ returned' = Append(returned, [kind |-> "raise", exc |-> outcome, value |-> << >>])
       ELSE /\ pc' = next
            /\ entry_decision_for_current_record' = Append(before, outcome)
            /\ UNCHANGED returned
    /\ UNCHANGED << entry_list, watch_list, country_list, clock, idx, entry_decision_list,
                    ticks >>

\* lines 34 and 37
CompletenessCheck ==
    Rule("completeness", "validity", << >>, basic_information_completeness_check(entry_record))

ValidityDecision ==
    Rule("validity", "watchlist", entry_decision_for_current_record,
         information_validity_decision_function(entry_record))

WatchlistDecision ==
    Rule("watchlist", "quarantine", entry_decision_for_current_record,
         watchlist_decision_function(entry_record, watch_list))

QuarantineDecision ==
    Rule("quarantine", "visa", entry_decision_for_current_record,
         quarantine_decision_function(entry_record, country_list))

\* check_visa_expiry reads the clock
VisaDecision ==
    Rule("visa", "returning", entry_decision_for_current_record,
         visa_decision_function(entry_record, country_list, clock))

ReturnEntryDecision ==
    Rule("returning", "final", entry_decision_for_current_record,
         return_entry_decision_function(entry_record))

\* AppendDecision putting the label at the head of the list
AppendDecisionAtHead ==
    /\ pc = "final"
    /\ entry_decision_list' =
           FinalDecision(entry_decision_for_current_record) \o entry_decision_list
    /\ idx' = idx + 1
    /\ pc' = LoopHead(idx + 1)
    /\ UNCHANGED << entry_list, watch_list, country_list, clock,
                    entry_decision_for_current_record, returned, ticks >>

\* lines 45-52, and on to the next record
AppendDecision ==
    /\ pc = "final"
    /\ entry_decision_list' =
           entry_decision_list \o FinalDecision(entry_decision_for_current_record)
    /\ idx' = idx + 1
    /\ pc' = LoopHead(idx + 1)
    /\ UNCHANGED << entry_list, watch_list, country_list, clock,
                    entry_decision_for_current_record, returned, ticks >>

Return ==
    /\ pc = "return"
    /\ pc' = "done"
    /\ returned' = Append(returned, [kind |-> "return", exc |-> "", value |-> entry_decision_list])
    /\ UNCHANGED << entry_list, watch_list, country_list, clock, idx,
                    entry_decision_for_current_record, entry_decision_list, ticks >>

\* the caller runs decide again on the same three files
Call ==
    /\ pc \in { "done", "raised" }
    /\ Len(returned) < MaxCalls
    /\ idx' = 1
    /\ pc' = LoopHead(1)
    /\ entry_decision_for_current_record' = << >>
    /\ entry_decision_list' = << >>
    /\ UNCHANGED << entry_list, watch_list, country_list, clock, returned, ticks >>

NextDay(t) ==
    IF t.d < DaysInMonth(t.y, t.m) THEN [t EXCEPT !.d = t.d + 1]
    ELSE IF t.m < 12 THEN [t EXCEPT !.m = t.m + 1, !.d = 1]
    ELSE [y |-> t.y + 1, m |-> 1, d |-> 1]

\* midnight passes
Tick ==
    /\ ticks < MaxTicks
    /\ ticks' = ticks + 1
    /\ clock' = NextDay(clock)
    /\ UNCHANGED << entry_list, watch_list, country_list, pc, idx,
                    entry_decision_for_current_record, entry_decision_list, returned >>

\* one call of decide
NextOnce ==
    \/ CompletenessCheck
    \/ ValidityDecision
    \/ WatchlistDecision
    \/ QuarantineDecision
    \/ VisaDecision
    \/ ReturnEntryDecision
    \/ AppendDecision
    \/ Return

Next ==
    \/ NextOnce
    \/ Call
    \/ Tick

Spec == Init /\ [][Next]_vars

SpecRecord == InitRecord /\ [][NextOnce]_vars

SpecExpiry == InitExpiry /\ [][NextOnce]_vars

(***************************************************************************)
(* What the claims speak of                                                *)
(***************************************************************************)
Labels == { "Accept", "Reject", "Secondary", "Quarantine" }

\* the six outcomes of the record decide has just labelled are still in
\* entry_decision_for_current_record
JustDecided ==
    /\ pc \in { "completeness", "return", "done" }
    /\ Len(entry_decision_for_current_record) = 6

\* that record
DecidedRecord == entry_list[idx - 1]

Last(s) == s[Len(s)]

Rank(label) ==
    CASE label = "Quarantine" -> 4
      [] label = "Reject" -> 3
      [] label = "Secondary" -> 2
      [] label = "Accept" -> 1
      [] OTHER -> 0

Orders == Permutations(1..6)

\* C1: the label decide appends for a record is the one of the six rule
\* outcomes that ranks highest in Quarantine > Reject > Secondary > Accept;
\* the six outcomes give the same label in every order, and with every
\* 'No Decision' among them left out.
C1_Priority ==
    JustDecided =>
        LET six == entry_decision_for_current_record
        IN  /\ Len(entry_decision_list) = idx - 1
            /\ Last(entry_decision_list) \in Range(six) \cap Labels
            /\ \A o \in Range(six) : Rank(o) <= Rank(Last(entry_decision_list))
            /\ \A f \in Orders :
                   FinalDecision([i \in 1..6 |-> six[f[i]]]) = << Last(entry_decision_list) >>
            /\ FinalDecision(SelectSeq(six, LAMBDA o : o # "No Decision"))
                   = << Last(entry_decision_list) >>

\* a record labelled whose outcomes hold Quarantine, Reject and No Decision
C1_Witness ==
    /\ JustDecided
    /\ { "Quarantine", "Reject", "No Decision" } \subseteq Range(entry_decision_for_current_record)
    /\ Last(entry_decision_list) = "Quarantine"

\* the outcomes of the six rule functions on a record, on the day `today`
SixOutcomes(record, today) ==
    << basic_information_completeness_check(record),
       information_validity_decision_function(record),
       watchlist_decision_function(record, watch_list),
       quarantine_decision_function(record, country_list),
       visa_decision_function(record, country_list, today),
       return_entry_decision_function(record) >>

RECURSIVE DaysAfter(_, _)
DaysAfter(t, k) == IF k = 0 THEN t ELSE NextDay(DaysAfter(t, k - 1))

\* the days the clock has shown since the first call
DaysSoFar ==
    { DaysAfter(t, k) : t \in { x \in Range(Options.clock) : DaysAfter(x, ticks) = clock },
                        k \in 0..ticks }

\* C2: the list decide returns holds exactly one label per entry record, in
\* the order of the records: when decide has just returned, the i-th label
\* is one of Accept, Reject, Secondary, Quarantine and is the decision for
\* the i-th record (on a day the clock has shown); while decide runs, no
\* record before the current one is without its label.
C2_OneLabelPerRecord ==
    /\ pc # "raised" => Len(entry_decision_list) = idx - 1
    /\ pc = "done" =>
          /\ Last(returned).kind = "return"
          /\ Len(Last(returned).value) = Len(entry_list)
          /\ \A i \in 1..Len(entry_list) :
                /\ Last(returned).value[i] \in Labels
                /\ \E t \in DaysSoFar :
                      LET six == SixOutcomes(entry_list[i], t)
                      IN  /\ Range(six) \cap Exceptions = {}
                          /\ Rank(Last(returned).value[i])
                               = Rank(CHOOSE o \in Range(six) :
                                         \A q \in Range(six) : Rank(q) <= Rank(o))

\* a list of two different labels was returned
C2_Witness ==
    /\ pc = "done"
    /\ Len(entry_list) = 2
    /\ Last(returned).kind = "return"
    /\ Last(returned).value = << "Quarantine", "Secondary" >>

\* C9: two calls of decide on the same entry list, watchlist and policy
\* table give the caller the same result.
C9_SameResultTwice ==
    \A j, k \in 1..Len(returned) : returned[j] = returned[k]

(***************************************************************************)
(* The record under decision                                               *)
(***************************************************************************)
\* decide is at a record, or has just labelled one
HasSubject ==
    \/ JustDecided
    \/ pc \in { "completeness", "validity", "watchlist", "quarantine", "visa", "returning",
                "final", "raised" }

\* that record; entry_decision_for_current_record holds its outcomes so far
Subject == IF JustDecided THEN DecidedRecord ELSE entry_record

\* the outcomes so far of the rules of Subject
Outcomes == IF pc = "completeness" /\ ~JustDecided THEN << >>
            ELSE entry_decision_for_current_record

Has2(r, k, f) == k \in DOMAIN r /\ f \in DOMAIN r[k]

\* the field at `path` is absent or the empty string
FieldMissing(r, path) ==
    \/ path[1] \notin DOMAIN r
    \/ Len(path) = 1 /\ r[path[1]] = << >>
    \/ Len(path) = 2 /\ (path[2] \notin DOMAIN r[path[1]] \/ r[path[1]][path[2]] = << >>)

\* a required field, or a sub-field of a present via or visa, is missing
Incomplete(r) ==
    \/ \E path \in Range(BasicPaths) : FieldMissing(r, path)
    \/ "via" \in DOMAIN r /\ \E path \in Range(ViaPaths) : FieldMissing(r, path)
    \/ "visa" \in DOMAIN r /\ \E path \in Range(VisaPaths) : FieldMissing(r, path)

\* C3: a record with a required field absent or empty gets 'Reject' from
\* the completeness rule and no rule raises on it: decide never ends with
\* an error at such a record.
C3_MissingFieldRejected ==
    (HasSubject /\ Incomplete(Subject)) =>
        /\ pc # "raised"
        /\ Outcomes # << >> => Outcomes[1] = "Reject"

(***************************************************************************)
(* Country codes the policy table does not hold                            *)
(***************************************************************************)
\* a code, other than KAN itself, that the table does not hold
Unknown(code) == code \notin { << >>, KAN } /\ code \notin DOMAIN country_list

\* the record names, as from, via or home country, a code not in the table
RefersToUnknown(r) ==
    \/ Has2(r, "from", "country") /\ Unknown(r["from"]["country"])
    \/ Has2(r, "via", "country") /\ Unknown(r["via"]["country"])
    \/ Has2(r, "home", "country") /\ Unknown(r["home"]["country"])

\* C4 as claimed: a record that names, as from, via or home country, a
\* country code absent from the policy table is never given a label.
C4_UnknownNeverLabelled ==
    (HasSubject /\ RefersToUnknown(Subject)) => ~JustDecided

ActiveAdvisory(code) ==
    code \in DOMAIN country_list /\ country_list[code].medical_advisory # << >>

\* the quarantine rule looks up a code the table does not hold
QuarantineLooksUpMissing(r) ==
    /\ Has2(r, "from", "country")
    /\ r["from"]["country"] # << >>
    /\ IF "via" \in DOMAIN r
       THEN /\ "country" \in DOMAIN r["via"]
            /\ \/ r["via"]["country"] \notin DOMAIN country_list
               \/ /\ ~ActiveAdvisory(r["via"]["country"])
                  /\ r["from"]["country"] \notin DOMAIN country_list
       ELSE r["from"]["country"] \notin DOMAIN country_list

\* the visa rule looks up a code the table does not hold
VisaLooksUpMissing(r) ==
    /\ Has2(r, "home", "country")
    /\ "entry_reason" \in DOMAIN r
    /\ r["home"]["country"] \notin { << >>, KAN }
    /\ "visa" \in DOMAIN r =>
          /\ Has2(r, "visa", "date") /\ r["visa"]["date"] # << >>
          /\ Has2(r, "visa", "code") /\ r["visa"]["code"] # << >>
    /\ r["home"]["country"] \notin DOMAIN country_list

\* C4 amended: when the quarantine rule or the visa rule looks up a country
\* code the table does not hold, decide ends with a KeyError at that rule at
\* the latest and the record gets no label.
C4_LookupOfUnknownRaises ==
    HasSubject =>
        /\ QuarantineLooksUpMissing(Subject) =>
              /\ ~JustDecided
              /\ pc \notin { "visa", "returning", "final" }
        /\ VisaLooksUpMissing(Subject) =>
              /\ ~JustDecided
              /\ pc \notin { "returning", "final" }
        /\ (QuarantineLooksUpMissing(Subject) \/ VisaLooksUpMissing(Subject)) /\ pc = "raised"
              => Last(returned).exc = "KeyError"

\* the quarantine rule raised on a complete record from an unknown country
C4_Witness ==
    /\ pc = "raised"
    /\ ~Incomplete(Subject)
    /\ Subject["from"]["country"] = ZZZ
    /\ Len(Outcomes) = 3

(***************************************************************************)
(* Medical advisories                                                      *)
(***************************************************************************)
\* from.country, or via.country when via is present, is under an advisory
UnderAdvisory(r) ==
    \/ Has2(r, "from", "country") /\ ActiveAdvisory(r["from"]["country"])
    \/ Has2(r, "via", "country") /\ ActiveAdvisory(r["via"]["country"])

SameIgnoringCase(a, b) ==
    /\ Len(a) = Len(b)
    /\ \A i \in 1..Len(a) : LowerChar(a[i]) = LowerChar(b[i])

NamesMatch(r, w) ==
    /\ SameIgnoringCase(r["first_name"], w.first_name)
    /\ SameIgnoringCase(r["last_name"], w.last_name)

WellFormed(r) ==
    /\ valid_passport_format(r["passport"])
    /\ valid_date_format(r["birth_date"])
    /\ "visa" \in DOMAIN r =>
          valid_date_format(r["visa"]["date"]) /\ valid_visa_code_format(r["visa"]["code"])

OnWatchlist(r) ==
    \E i \in 1..Len(watch_list) :
        NamesMatch(r, watch_list[i]) \/ r["passport"] = watch_list[i].passport

NoAdvisory(code) ==
    code \in DOMAIN country_list /\ country_list[code].medical_advisory = << >>

\* a complete, well-formed record of a returning KAN citizen, not on the
\* watchlist, from a country under no advisory
ReturningCitizen(r) ==
    /\ ~Incomplete(r)
    /\ WellFormed(r)
    /\ r["home"]["country"] = KAN
    /\ r["entry_reason"] = returning
    /\ ~OnWatchlist(r)
    /\ NoAdvisory(r["from"]["country"])

\* C7 as claimed: such a record is labelled Accept.
C7_ReturningCitizenAccepted ==
    (JustDecided /\ ReturningCitizen(Subject)) => Last(entry_decision_list) = "Accept"

\* C7 amended: such a record whose via.country, when via is present, is
\* under no advisory either, is labelled Accept, and no rule raises on it,
\* whether or not the policy table holds KAN.
C7_ReturningCitizenNoAdvisoryAccepted ==
    ( /\ HasSubject
      /\ ReturningCitizen(Subject)
      /\ "via" \in DOMAIN Subject => NoAdvisory(Subject["via"]["country"]) )
    => /\ pc # "raised"
       /\ JustDecided => Last(entry_decision_list) = "Accept"

\* a returning citizen with a stopover, accepted on a table without KAN
C7_Witness ==
    /\ JustDecided
    /\ ReturningCitizen(Subject)
    /\ "via" \in DOMAIN Subject
    /\ KAN \notin DOMAIN country_list
    /\ Last(entry_decision_list) = "Accept"

(***************************************************************************)
(* Visas                                                                   *)
(***************************************************************************)
\* the last day on which a visa is expired
Cutoff(today) ==
    IF today.m = 2 /\ today.d = 29
    THEN [y |-> today.y - 2, m |-> 3, d |-> 1]
    ELSE [y |-> today.y - 2, m |-> today.m, d |-> today.d]

\* date a is later than date b
Later(a, b) ==
    \/ a.y > b.y
    \/ a.y = b.y /\ a.m > b.m
    \/ a.y = b.y /\ a.m = b.m /\ a.d > b.d

\* the visa flag of the country that the reason for entry selects is '1'
FlagSet(code, reason) ==
    IF SameIgnoringCase(reason, transit)
    THEN country_list[code].transit_visa_required = One
    ELSE country_list[code].visitor_visa_required = One

\* what the visa rule is to yield on record r today
VisaRuleExpected(r, today) ==
    IF \/ r["home"]["country"] = << >>
       \/ "visa" \in DOMAIN r /\ (r["visa"]["date"] = << >> \/ r["visa"]["code"] = << >>)
    THEN "Reject"
    ELSE IF r["home"]["country"] # KAN /\ FlagSet(r["home"]["country"], r["entry_reason"])
    THEN (IF /\ "visa" \in DOMAIN r
             /\ valid_date_format(r["visa"]["date"])
             /\ valid_visa_code_format(r["visa"]["code"])
             /\ Later(strptime(r["visa"]["date"]), Cutoff(today))
          THEN "Accept" ELSE "Reject")
    ELSE "Accept"

\* C8: whenever the visa rule returns, it returns Reject for an empty
\* home.country or a visa with an empty date or code; otherwise, when the
\* flag selected by the reason (transit, in any case, or else visitor) is
\* set for a home.country other than KAN, Accept iff the record has a visa
\* of valid date and code that is not expired, else Reject; and Accept when
\* no visa is required.
C8_VisaRule ==
    (HasSubject /\ Len(Outcomes) >= 5) => Outcomes[5] = VisaRuleExpected(Subject, clock)

\* a transit visa, asked for in capitals, found valid
C8_Witness ==
    /\ JustDecided
    /\ Subject["home"]["country"] = TRA
    /\ Subject["entry_reason"] = upper(transit)
    /\ "visa" \in DOMAIN Subject
    /\ Outcomes[5] = "Accept"

\* C10: the expiry check passes a visa iff its date is later than the day
\* two calendar years before today, so a visa of exactly that day is
\* expired and one of the day after is valid; on a Feb 29 the day two
\* years before is taken to be Mar 1, and no error is raised.
C10_Expiry ==
    LET last == Cutoff(clock)
        first == NextDay(last)
    IN  /\ pc # "raised"
        /\ check_visa_expiry(DateStr(last.y, last.m, last.d), clock) = "False"
        /\ check_visa_expiry(DateStr(first.y, first.m, first.d), clock) = "True"
        /\ (HasSubject /\ Len(Outcomes) >= 5 /\ valid_date_format(Subject["visa"]["date"])) =>
              (Outcomes[5] = "Accept" <=> Later(strptime(Subject["visa"]["date"]), last))

\* on a Feb 29, a visa of Mar 2 two years before was found valid
C10_Witness ==
    /\ pc = "done"
    /\ clock.m = 2 /\ clock.d = 29
    /\ strptime(Subject["visa"]["date"]) = [ok |-> TRUE, y |-> clock.y - 2, m |-> 3, d |-> 2]
    /\ Outcomes[5] = "Accept"

====
